---- MODULE Spec2Model ----
(***************************************************************************)
(* Streaming extraction and staged atomic publish pipeline of the Sales    *)
(* Charts export script: timed, stream_query_to_local_csv,                 *)
(* save_csv_via_staging_streaming, run_sales_export and the module-level   *)
(* sequence of jobs.                                                       *)
(*                                                                         *)
(* Two drivers share the pipeline actions:                                 *)
(*   Spec        the script itself: three run_sales_export jobs in a row;  *)
(*   SpecDirect  a caller invoking save_csv_via_staging_streaming directly *)
(*               (own connection, any arraysize, spans given or default).  *)
(***************************************************************************)
EXTENDS Integers, Sequences, FiniteSets, TLC

\* ---------------------------------------------------------------- bounds
MaxRows  == 2      \* longest result set a query yields
MaxBatch == 2      \* largest arraysize tried
MaxCalls == 2      \* direct calls made in a row under SpecDirect

\* ------------------------------------------------------ program constants
NumJobs == 3       \* module-level calls of run_sales_export

\* ------------------------------------------------------------ value space
\* Column names from cur.description, and the rows a query may yield; the
\* values are the str() images csv.writer emits.
cols == <<"Date", "Site", "Amount">>

RowVals == { <<"2024-01-01", "A", "10">>, <<"2024-01-02", "B", "20">> }

RECURSIVE SeqsUpTo(_, _)
SeqsUpTo(S, n) ==
    IF n = 0 THEN { <<>> }
    ELSE LET shorter == SeqsUpTo(S, n - 1)
         IN  shorter \cup { Append(s, x) : s \in { t \in shorter : Len(t) = n - 1 }, x \in S }

ResultSets == SeqsUpTo(RowVals, MaxRows)

\* ------------------------------------------------------------------ files
Absent     == [exists |-> FALSE, lines |-> <<>>]
File(ls)   == [exists |-> TRUE,  lines |-> ls]

\* csv.writer(f, lineterminator="\n").writerow(row): fields joined by the
\* delimiter, closed by the line terminator.  No value of the value space
\* holds a delimiter, quote or newline, so no field is quoted.
RECURSIVE JoinFields(_)
JoinFields(row) ==
    IF Len(row) = 0 THEN ""
    ELSE IF Len(row) = 1 THEN row[1]
    ELSE row[1] \o "," \o JoinFields(Tail(row))

writerow(row) == JoinFields(row) \o "\n"

RECURSIVE writerowsReversed(_)
writerowsReversed(rs) ==
    IF rs = <<>> THEN <<>>
    ELSE writerowsReversed(Tail(rs)) \o <<writerow(Head(rs))>>

\* csv.writer.writerows(rows): one record per row, in order.
RECURSIVE writerows(_)
writerows(rs) ==
    IF rs = <<>> THEN <<>> ELSE <<writerow(Head(rs))>> \o writerows(Tail(rs))

\* include_header=True: the header record is written first.
HeaderNone(cs, include_header) == <<>>
HeaderLines(cs, include_header) ==
    IF include_header THEN <<writerow(cs)>> ELSE <<>>

\* cur.fetchmany(): the next arraysize rows of the cursor (fewer at the end).
Min(a, b) == IF a < b THEN a ELSE b

fetchmanyFullOnly(cur, n) ==
    IF Len(cur) < n THEN <<>> ELSE SubSeq(cur, 1, n)
fetchmany(cur, n) == SubSeq(cur, 1, Min(n, Len(cur)))

AdvanceOneRow(cur, got) == SubSeq(cur, Min(2, Len(cur) + 1), Len(cur))
Advance(cur, got) == SubSeq(cur, Len(got) + 1, Len(cur))

\* ------------------------------------------------------------------ paths
\* A path of the destination directory: name stem and suffix.
Path(stem, suffix) == [stem |-> stem, suffix |-> suffix]

\* Path.with_suffix
with_suffix(p, s) == [p EXCEPT !.suffix = s]

\* final_unc_path of job j: the three jobs name the same file.
final_unc_path(j) == Path("SW_Sales_Chart_Data", ".csv")

UncTmpSame(final) == final
UncTmp(final) == with_suffix(final, ".tmp.csv")

UncPaths == { final_unc_path(j) : j \in 1..NumJobs }
            \cup { with_suffix(final_unc_path(j), ".tmp.csv") : j \in 1..NumJobs }

\* Indices of the runs a driver may make.
Runs == 1..(NumJobs + MaxCalls)

\* uuid.uuid4(): a value never drawn before; one is drawn per run.
Uuids == Runs

\* ----------------------------------------------------------- timing spans
\* spans is None (the parameter's default) or a map label -> seconds.
NoneSpans    == [none |-> TRUE,  m |-> <<>>]
Spans(m)     == [none |-> FALSE, m |-> m]
EmptyMap     == [l \in {} |-> 0]
MapGet(m, l, d) == IF l \in DOMAIN m THEN m[l] ELSE d
MapPut(m, l, v) == [x \in (DOMAIN m) \cup {l} |-> IF x = l THEN v ELSE m[x]]

\* A map a caller has already accumulated into.
CallerMap == [l \in {"READ_STREAM_TO_LOCAL_CSV", "OTHER"} |->
                 IF l = "OTHER" THEN 7 ELSE 5]

\* The finally block of timed(label, bucket): bucket.get on None raises
\* AttributeError (replacing any error of the body); otherwise the elapsed
\* time is accumulated and the body's error, if any, keeps propagating.
timedExitSwallow(lbl, bucket, dt, exc) ==
    IF bucket.none
    THEN [bucket |-> bucket, exc |-> "AttributeError"]
    ELSE [bucket |-> Spans(MapPut(bucket.m, lbl, MapGet(bucket.m, lbl, 0) + dt)),
          exc    |-> "none"]
timedExitOverwrite(lbl, bucket, dt, exc) ==
    IF bucket.none
    THEN [bucket |-> bucket, exc |-> "AttributeError"]
    ELSE [bucket |-> Spans(MapPut(bucket.m, lbl, dt)), exc |-> exc]
timedExit(lbl, bucket, dt, exc) ==
    IF bucket.none
    THEN [bucket |-> bucket, exc |-> "AttributeError"]
    ELSE [bucket |-> Spans(MapPut(bucket.m, lbl, MapGet(bucket.m, lbl, 0) + dt)),
          exc    |-> exc]

\* ------------------------------------------------------------------ state
VARIABLES
    mode,         \* "script" (module level) or "direct" (direct caller)
    pc,           \* position of the single thread
    job,          \* index of the current job / call
    cxn,          \* job -> "none" | "open" | "closed"
    arraysize,
    src,          \* the result set of the current query
    cursor,       \* rows the cursor has not yet yielded
    rows,         \* the batch last fetched
    row_count,
    rows_written, \* value returned by stream_query_to_local_csv
    local,        \* local temp directory: uuid -> file
    local_tmp,    \* uuid naming this run's staging file
    f_open,       \* the staging file's write handle is open
    unc,          \* destination directory: path -> file
    final_unc,
    unc_tmp,
    copied,       \* lines of the staging file already copied
    spans,
    label,        \* label of the timed block the thread is in, "" if none
    t0,           \* start instant of that block
    now,          \* perf_counter(), counted from the run's job_T0
    error,        \* error reaching the caller, "none" if none
    failedAt,     \* step at which the current run met a fault, "" if none
                  \* ("timed": the error arose in a timed block's exit)
    swallowed,    \* the unlink failed and the failure was passed over
    attempts,     \* step -> times the current run attempted it
    finalBefore,  \* file at the final path when the current run began
    prev,         \* inputs and outputs of the last call that returned
    observed      \* what the concurrent reader last read at the final path
                  \* (its last poll before the run, when the run begins)

vars == << mode, pc, job, cxn, arraysize, src, cursor, rows, row_count,
           rows_written, local, local_tmp, f_open, unc, final_unc, unc_tmp,
           copied, spans, label, t0, now, error, failedAt, swallowed,
           attempts, finalBefore, prev, observed >>

Steps == {"connect", "mkdir", "execute", "fetch", "write", "copy", "rename",
          "unlink", "close"}

NoAttempts == [s \in Steps |-> 0]
Tried(s)   == [attempts EXCEPT ![s] = @ + 1]

NoPrev == [valid |-> FALSE, src |-> <<>>, arraysize |-> 0,
           content |-> <<>>, count |-> 0, dest |-> final_unc_path(1)]

\* What the destination directory may hold before the script starts: no
\* export or a complete earlier one at the final path, nothing or the
\* leftover of an interrupted copy at the temporary path.
PriorExport == File(HeaderLines(cols, TRUE) \o writerows(<< <<"2023-12-31", "Z", "5">> >>))
StaleTmp    == File(<<"Date,Site,Amount\n", "2023-12-30,Y">>)

InitCommon ==
    /\ job = 1
    /\ cxn = [j \in Runs |-> "none"]
    /\ arraysize \in 1..MaxBatch
    /\ src = <<>> /\ cursor = <<>> /\ rows = <<>>
    /\ row_count = 0 /\ rows_written = 0
    /\ local = [u \in Uuids |-> Absent]
    /\ local_tmp = 0
    /\ f_open = FALSE
    /\ \E fin \in {Absent, PriorExport}, tmp \in {Absent, StaleTmp} :
          unc = [p \in UncPaths |->
                   IF p = final_unc_path(1) THEN fin ELSE tmp]
    /\ final_unc = final_unc_path(1)
    /\ unc_tmp = final_unc_path(1)
    /\ copied = 0
    /\ spans = Spans(EmptyMap)
    /\ label = "" /\ t0 = 0 /\ now = 0
    /\ error = "none" /\ failedAt = "" /\ swallowed = FALSE
    /\ attempts = NoAttempts
    /\ finalBefore = unc[final_unc_path(1)]
    /\ prev = NoPrev
    /\ observed = unc[final_unc_path(1)]

Init       == mode = "script" /\ pc = "module" /\ InitCommon
InitDirect == mode = "direct" /\ pc = "caller" /\ InitCommon

\* ------------------------------------------------------- control transfer
\* (The rename placed ahead of the copy.)
AfterBlockRenameFirst(lbl) ==
    CASE lbl = "CONNECT"                  -> "mkdir"
      [] lbl = "READ_STREAM_TO_LOCAL_CSV" -> "rename"
      [] lbl = "COPY_TO_UNC"              -> "unlink"
      [] lbl = "RENAME_ON_UNC"            -> "unlink"
      [] lbl = "CLEANUP"                  -> "return"
      [] OTHER                            -> "failed"

\* Statement reached when the timed block lbl is left without an error.
AfterBlock(lbl) ==
    CASE lbl = "CONNECT"                  -> "mkdir"
      [] lbl = "READ_STREAM_TO_LOCAL_CSV" -> "copy_open"
      [] lbl = "COPY_TO_UNC"              -> "rename"
      [] lbl = "RENAME_ON_UNC"            -> "unlink"
      [] lbl = "CLEANUP"                  -> "return"
      [] OTHER                            -> "failed"

\* Timed block entered right after lbl ("" if the next statement is untimed).
NextLabel(lbl) ==
    CASE lbl = "READ_STREAM_TO_LOCAL_CSV" -> "COPY_TO_UNC"
      [] lbl = "COPY_TO_UNC"              -> "RENAME_ON_UNC"
      [] OTHER                            -> ""

\* The thread leaves the statement it is in: normally (exc = "none") or by
\* an error raised at step `at`.  The enclosing timed block, if any, runs its
\* finally clause; an error that survives it is caught nowhere and reaches
\* the caller, ending the run.
LeaveBlock(exc, at) ==
    LET r  == IF label = "" THEN [bucket |-> spans, exc |-> exc]
              ELSE timedExit(label, spans, now + 1 - t0, exc)
        ok == r.exc = "none"
    IN  /\ spans'    = r.bucket
        /\ error'    = r.exc
        /\ failedAt' = IF exc # "none" THEN at
                       ELSE IF ~ok THEN "timed" ELSE failedAt
        /\ pc'       = IF ok THEN AfterBlock(label) ELSE "failed"
        /\ label'    = IF ok THEN NextLabel(label) ELSE ""
        /\ t0'       = now + 1
        /\ now'      = now + 1

Tick == now' = now + 1

\* Locals of a fresh call.
FreshRun ==
    /\ src' = <<>> /\ cursor' = <<>> /\ rows' = <<>>
    /\ row_count' = 0 /\ rows_written' = 0 /\ copied' = 0
    /\ error' = "none" /\ failedAt' = "" /\ swallowed' = FALSE
    /\ attempts' = NoAttempts
    /\ finalBefore' = unc[final_unc_path(job)]
    /\ observed' = unc[final_unc_path(job)]

\* (A script that goes on to its next job after a job has failed.)
StartJobAfterFailure ==
    /\ mode = "script"
    /\ pc = "module" \/ (pc = "failed" /\ job < NumJobs)
    /\ job' = IF pc = "failed" THEN job + 1 ELSE job
    /\ FreshRun
    /\ spans' = Spans(MapPut(MapPut(EmptyMap, "IMPORTS", 0), "PREP", 1))
    /\ now' = 1 /\ t0' = 1
    /\ label' = "CONNECT"
    /\ pc' = "connect"
    /\ UNCHANGED << mode, cxn, arraysize, local, local_tmp, f_open, unc,
                    final_unc, unc_tmp, prev >>

\* -------------------------------------------------------- run_sales_export
\* Entry of run_sales_export for the next job: job_T0, spans with IMPORTS,
\* and the PREP block (which cannot fail).
StartJob ==
    /\ mode = "script" /\ pc = "module"
    /\ FreshRun
    /\ spans' = timedExit("PREP", Spans(MapPut(EmptyMap, "IMPORTS", 0)), 1, "none").bucket
    /\ now' = 1 /\ t0' = 1
    /\ label' = "CONNECT"
    /\ pc' = "connect"
    /\ UNCHANGED << mode, job, cxn, arraysize, local, local_tmp, f_open, unc,
                    final_unc, unc_tmp, prev >>

Connect ==
    /\ pc = "connect"
    /\ cxn' = [cxn EXCEPT ![job] = "open"]
    /\ attempts' = Tried("connect")
    /\ LeaveBlock("none", "connect")
    /\ UNCHANGED << mode, job, arraysize, src, cursor, rows, row_count,
                    rows_written, local, local_tmp, f_open, unc, final_unc,
                    unc_tmp, copied, swallowed, finalBefore, prev, observed >>

\* (A connect that is tried again after a failure.)
ConnectFailsRetry ==
    /\ pc = "connect"
    /\ attempts["connect"] < 3
    /\ attempts' = Tried("connect")
    /\ Tick
    /\ UNCHANGED << mode, pc, job, cxn, arraysize, src, cursor, rows,
                    row_count, rows_written, local, local_tmp, f_open, unc,
                    final_unc, unc_tmp, copied, spans, label, t0, error,
                    failedAt, swallowed, finalBefore, prev, observed >>

ConnectFails ==
    /\ pc = "connect"
    /\ attempts' = Tried("connect")
    /\ LeaveBlock("ConnectionError", "connect")
    /\ UNCHANGED << mode, job, cxn, arraysize, src, cursor, rows, row_count,
                    rows_written, local, local_tmp, f_open, unc, final_unc,
                    unc_tmp, copied, swallowed, finalBefore, prev, observed >>

\* The CLEANUP block: the report, then cxn.close().
Cleanup ==
    /\ pc = "cleanup"
    /\ cxn' = [cxn EXCEPT ![job] = "closed"]
    /\ attempts' = Tried("close")
    /\ LeaveBlock("none", "close")
    /\ UNCHANGED << mode, job, arraysize, src, cursor, rows, row_count,
                    rows_written, local, local_tmp, f_open, unc, final_unc,
                    unc_tmp, copied, swallowed, finalBefore, prev, observed >>

\* The call returns to its caller, which goes on to its next call, if any.
Return ==
    /\ pc = "return"
    /\ LET last == IF mode = "script" THEN NumJobs ELSE MaxCalls
       IN  IF job < last
           THEN /\ job' = job + 1
                /\ pc' = IF mode = "script" THEN "module" ELSE "caller"
           ELSE /\ job' = job
                /\ pc' = "exit"
    /\ UNCHANGED << mode, cxn, arraysize, src, cursor, rows, row_count,
                    rows_written, local, local_tmp, f_open, unc, final_unc,
                    unc_tmp, copied, spans, label, t0, now, error, failedAt,
                    swallowed, attempts, finalBefore, prev, observed >>

\* A caller other than run_sales_export: it owns an open connection and
\* passes spans (an empty map, or one it has accumulated into before) or
\* leaves it to its default.
DirectCall ==
    /\ mode = "direct" /\ pc = "caller"
    /\ FreshRun
    /\ \E a \in 1..MaxBatch : arraysize' = a
    /\ \E sp \in {NoneSpans, Spans(EmptyMap), Spans(CallerMap)} : spans' = sp
    /\ cxn' = [cxn EXCEPT ![job] = "open"]
    /\ now' = 0 /\ t0' = 0
    /\ label' = ""
    /\ pc' = "mkdir"
    /\ UNCHANGED << mode, job, local, local_tmp, f_open, unc, final_unc,
                    unc_tmp, prev >>

\* ------------------------------------------- save_csv_via_staging_streaming
\* Lines 182-185: the paths of the run; mkdir(parents=True, exist_ok=True)
\* leaves an existing directory as it is.  Then the READ_STREAM block opens.
Mkdir ==
    /\ pc = "mkdir"
    /\ final_unc' = final_unc_path(job)
    /\ unc_tmp' = UncTmp(final_unc_path(job))
    /\ local_tmp' = local_tmp + 1
    /\ attempts' = Tried("mkdir")
    /\ label' = "READ_STREAM_TO_LOCAL_CSV"
    /\ t0' = now + 1
    /\ Tick
    /\ pc' = "execute"
    /\ UNCHANGED << mode, job, cxn, arraysize, src, cursor, rows, row_count,
                    rows_written, local, f_open, unc, copied, spans, error,
                    failedAt, swallowed, finalBefore, prev, observed >>

MkdirFails ==
    /\ pc = "mkdir"
    /\ attempts' = Tried("mkdir")
    /\ LeaveBlock("OSError", "mkdir")
    /\ UNCHANGED << mode, job, cxn, arraysize, src, cursor, rows, row_count,
                    rows_written, local, local_tmp, f_open, unc, final_unc,
                    unc_tmp, copied, swallowed, finalBefore, prev, observed >>

\* ------------------------------------------------ stream_query_to_local_csv
\* cur.execute(sql, params): the query yields some result set.
Execute ==
    /\ pc = "execute"
    /\ cxn[job] = "open"
    /\ \E rs \in ResultSets : src' = rs /\ cursor' = rs
    /\ row_count' = 0
    /\ attempts' = Tried("execute")
    /\ Tick
    /\ pc' = "open"
    /\ UNCHANGED << mode, job, cxn, arraysize, rows, rows_written, local,
                    local_tmp, f_open, unc, final_unc, unc_tmp, copied, spans,
                    label, t0, error, failedAt, swallowed, finalBefore, prev,
                    observed >>

ExecuteFails ==
    /\ pc = "execute"
    /\ attempts' = Tried("execute")
    /\ LeaveBlock("QueryError", "execute")
    /\ UNCHANGED << mode, job, cxn, arraysize, src, cursor, rows, row_count,
                    rows_written, local, local_tmp, f_open, unc, final_unc,
                    unc_tmp, copied, swallowed, finalBefore, prev, observed >>

\* open(local_csv_path, "w", ...): the file is created empty.
OpenStaging ==
    /\ pc = "open"
    /\ local' = [local EXCEPT ![local_tmp] = File(<<>>)]
    /\ f_open' = TRUE
    /\ Tick
    /\ pc' = "header"
    /\ UNCHANGED << mode, job, cxn, arraysize, src, cursor, rows, row_count,
                    rows_written, local_tmp, unc, final_unc, unc_tmp, copied,
                    spans, label, t0, error, failedAt, swallowed, attempts,
                    finalBefore, prev, observed >>

\* if include_header: w.writerow(cols)
WriteHeader ==
    /\ pc = "header"
    /\ local' = [local EXCEPT ![local_tmp] =
                    File(@.lines \o HeaderLines(cols, TRUE))]
    /\ Tick
    /\ pc' = "fetch"
    /\ UNCHANGED << mode, job, cxn, arraysize, src, cursor, rows, row_count,
                    rows_written, local_tmp, f_open, unc, final_unc, unc_tmp,
                    copied, spans, label, t0, error, failedAt, swallowed,
                    attempts, finalBefore, prev, observed >>

\* rows = cur.fetchmany(); if not rows: break
Fetch ==
    /\ pc = "fetch"
    /\ LET got == fetchmany(cursor, arraysize)
       IN  /\ rows' = got
           /\ cursor' = Advance(cursor, got)
           /\ pc' = IF got = <<>> THEN "endstream" ELSE "write"
    /\ attempts' = Tried("fetch")
    /\ Tick
    /\ UNCHANGED << mode, job, cxn, arraysize, src, row_count, rows_written,
                    local, local_tmp, f_open, unc, final_unc, unc_tmp, copied,
                    spans, label, t0, error, failedAt, swallowed, finalBefore,
                    prev, observed >>

\* A fetch raises: the with statement closes the staging file on the way out.
FetchFails ==
    /\ pc = "fetch"
    /\ attempts' = Tried("fetch")
    /\ f_open' = FALSE
    /\ LeaveBlock("StreamError", "fetch")
    /\ UNCHANGED << mode, job, cxn, arraysize, src, cursor, rows, row_count,
                    rows_written, local, local_tmp, unc, final_unc, unc_tmp,
                    copied, swallowed, finalBefore, prev, observed >>

\* (The count advanced by one per batch instead of by the batch's length.)
WriteRowsCountsBatches ==
    /\ pc = "write"
    /\ local' = [local EXCEPT ![local_tmp] = File(@.lines \o writerows(rows))]
    /\ row_count' = row_count + 1
    /\ attempts' = Tried("write")
    /\ Tick
    /\ pc' = "fetch"
    /\ UNCHANGED << mode, job, cxn, arraysize, src, cursor, rows,
                    rows_written, local_tmp, f_open, unc, final_unc, unc_tmp,
                    copied, spans, label, t0, error, failedAt, swallowed,
                    finalBefore, prev, observed >>

\* w.writerows(rows); row_count += len(rows)
WriteRows ==
    /\ pc = "write"
    /\ local' = [local EXCEPT ![local_tmp] = File(@.lines \o writerows(rows))]
    /\ row_count' = row_count + Len(rows)
    /\ attempts' = Tried("write")
    /\ Tick
    /\ pc' = "fetch"
    /\ UNCHANGED << mode, job, cxn, arraysize, src, cursor, rows,
                    rows_written, local_tmp, f_open, unc, final_unc, unc_tmp,
                    copied, spans, label, t0, error, failedAt, swallowed,
                    finalBefore, prev, observed >>

\* The open, the header write or a batch write raises (a batch may have been
\* written in part); the file, if it was opened, is closed on the way out.
StagingWriteFails ==
    /\ pc \in {"open", "header", "write"}
    /\ \E k \in 0..Len(rows) :
          /\ k < Len(rows) \/ pc # "write"
          /\ k = 0 \/ pc = "write"
          /\ local' = IF pc = "write"
                      THEN [local EXCEPT ![local_tmp] =
                              File(@.lines \o writerows(SubSeq(rows, 1, k)))]
                      ELSE local
    /\ f_open' = FALSE
    /\ attempts' = Tried("write")
    /\ LeaveBlock("IOError", "write")
    /\ UNCHANGED << mode, job, cxn, arraysize, src, cursor, rows, row_count,
                    rows_written, local_tmp, unc, final_unc, unc_tmp, copied,
                    swallowed, finalBefore, prev, observed >>

\* The loop is left: the with statement flushes and closes the file,
\* cur.close(), return row_count; the READ_STREAM block ends.
EndStream ==
    /\ pc = "endstream"
    /\ f_open' = FALSE
    /\ rows_written' = row_count
    /\ LeaveBlock("none", "endstream")
    /\ UNCHANGED << mode, job, cxn, arraysize, src, cursor, rows, row_count,
                    local, local_tmp, unc, final_unc, unc_tmp, copied,
                    swallowed, attempts, finalBefore, prev, observed >>

\* ---------------------------------------------------------------- publish
\* shutil.copyfile opens the target for writing, which empties it.
copyfileOpenAppend(dir, dst) ==
    IF dir[dst].exists THEN dir ELSE [dir EXCEPT ![dst] = File(<<>>)]
copyfileOpen(dir, dst) == [dir EXCEPT ![dst] = File(<<>>)]

\* os.replace(a, b): b becomes the file a was and a is gone, in one step.
replaceKeepTmp(dir, a, b) == [dir EXCEPT ![b] = dir[a]]
replace(dir, a, b) ==
    IF a = b THEN dir ELSE [dir EXCEPT ![b] = dir[a], ![a] = Absent]

\* Path.unlink(missing_ok=True)
unlinkNothing(files, name) == files
unlink(files, name) == [files EXCEPT ![name] = Absent]

\* shutil.copyfile(local_tmp, unc_tmp) begins: both files are opened.
CopyOpen ==
    /\ pc = "copy_open"
    /\ local[local_tmp].exists
    /\ unc' = copyfileOpen(unc, unc_tmp)
    /\ copied' = 0
    /\ attempts' = Tried("copy")
    /\ Tick
    /\ pc' = "copy"
    /\ UNCHANGED << mode, job, cxn, arraysize, src, cursor, rows, row_count,
                    rows_written, local, local_tmp, f_open, final_unc, unc_tmp,
                    spans, label, t0, error, failedAt, swallowed, finalBefore,
                    prev, observed >>

\* The copy moves the next piece of the staging file.
CopyChunk ==
    /\ pc = "copy"
    /\ copied < Len(local[local_tmp].lines)
    /\ unc' = [unc EXCEPT ![unc_tmp] =
                  File(@.lines \o <<local[local_tmp].lines[copied + 1]>>)]
    /\ copied' = copied + 1
    /\ Tick
    /\ UNCHANGED << mode, pc, job, cxn, arraysize, src, cursor, rows,
                    row_count, rows_written, local, local_tmp, f_open,
                    final_unc, unc_tmp, spans, label, t0, error, failedAt,
                    swallowed, attempts, finalBefore, prev, observed >>

\* The copy is complete; the COPY_TO_UNC block ends, RENAME_ON_UNC opens.
CopyEnd ==
    /\ pc = "copy"
    /\ copied = Len(local[local_tmp].lines)
    /\ LeaveBlock("none", "copy")
    /\ UNCHANGED << mode, job, cxn, arraysize, src, cursor, rows, row_count,
                    rows_written, local, local_tmp, f_open, unc, final_unc,
                    unc_tmp, copied, swallowed, attempts, finalBefore, prev,
                    observed >>

\* The copy raises: before the target is opened, or part way through.
CopyFails ==
    /\ pc \in {"copy_open", "copy"}
    /\ attempts' = IF pc = "copy_open" THEN Tried("copy") ELSE attempts
    /\ LeaveBlock("PublishError", "copy")
    /\ UNCHANGED << mode, job, cxn, arraysize, src, cursor, rows, row_count,
                    rows_written, local, local_tmp, f_open, unc, final_unc,
                    unc_tmp, copied, swallowed, finalBefore, prev, observed >>

\* os.replace(unc_tmp, final_unc)
Rename ==
    /\ pc = "rename"
    /\ unc[unc_tmp].exists
    /\ unc' = replace(unc, unc_tmp, final_unc)
    /\ attempts' = Tried("rename")
    /\ LeaveBlock("none", "rename")
    /\ UNCHANGED << mode, job, cxn, arraysize, src, cursor, rows, row_count,
                    rows_written, local, local_tmp, f_open, final_unc, unc_tmp,
                    copied, swallowed, finalBefore, prev, observed >>

RenameFails ==
    /\ pc = "rename"
    /\ attempts' = Tried("rename")
    /\ LeaveBlock("PublishError", "rename")
    /\ UNCHANGED << mode, job, cxn, arraysize, src, cursor, rows, row_count,
                    rows_written, local, local_tmp, f_open, unc, final_unc,
                    unc_tmp, copied, swallowed, finalBefore, prev, observed >>

\* What the call hands back on return rows_written, with what it published.
Returned ==
    [valid |-> TRUE, src |-> src, arraysize |-> arraysize,
     content |-> unc[final_unc].lines, count |-> rows_written,
     dest |-> final_unc]

\* After the last statement of save_csv_via_staging_streaming control is
\* back in run_sales_export (its CLEANUP block) or in the direct caller.
AfterSave ==
    /\ prev' = Returned
    /\ pc' = IF mode = "script" THEN "cleanup" ELSE "return"
    /\ label' = IF mode = "script" THEN "CLEANUP" ELSE ""
    /\ t0' = now + 1
    /\ Tick

\* try: local_tmp.unlink(missing_ok=True); return rows_written
Unlink ==
    /\ pc = "unlink"
    /\ local' = unlink(local, local_tmp)
    /\ attempts' = Tried("unlink")
    /\ AfterSave
    /\ UNCHANGED << mode, job, cxn, arraysize, src, cursor, rows, row_count,
                    rows_written, local_tmp, f_open, unc, final_unc, unc_tmp,
                    copied, spans, error, failedAt, swallowed, finalBefore,
                    observed >>

\* (An unlink failure that is not caught.)
UnlinkFailsPropagates ==
    /\ pc = "unlink"
    /\ swallowed' = TRUE
    /\ attempts' = Tried("unlink")
    /\ LeaveBlock("OSError", "unlink")
    /\ UNCHANGED << mode, job, cxn, arraysize, src, cursor, rows, row_count,
                    rows_written, local, local_tmp, f_open, unc, final_unc,
                    unc_tmp, copied, finalBefore, prev, observed >>

\* except Exception: pass; return rows_written
UnlinkFails ==
    /\ pc = "unlink"
    /\ swallowed' = TRUE
    /\ attempts' = Tried("unlink")
    /\ AfterSave
    /\ UNCHANGED << mode, job, cxn, arraysize, src, cursor, rows, row_count,
                    rows_written, local, local_tmp, f_open, unc, final_unc,
                    unc_tmp, copied, spans, error, failedAt, finalBefore,
                    observed >>

\* ------------------------------------------------------ concurrent reader
\* A consumer of the share reads the final path, at any instant of a run.
Reader ==
    /\ pc \notin {"failed", "exit"}
    /\ observed' = unc[final_unc_path(job)]
    /\ observed' # observed
    /\ UNCHANGED << mode, pc, job, cxn, arraysize, src, cursor, rows,
                    row_count, rows_written, local, local_tmp, f_open, unc,
                    final_unc, unc_tmp, copied, spans, label, t0, now, error,
                    failedAt, swallowed, attempts, finalBefore, prev >>

\* ---------------------------------------------------------- specifications
Next ==
    \/ StartJob \/ Connect \/ ConnectFails
    \/ Mkdir \/ MkdirFails
    \/ Execute \/ ExecuteFails
    \/ OpenStaging \/ WriteHeader
    \/ Fetch \/ FetchFails \/ WriteRows \/ StagingWriteFails \/ EndStream
    \/ CopyOpen \/ CopyChunk \/ CopyEnd \/ CopyFails
    \/ Rename \/ RenameFails
    \/ Unlink \/ UnlinkFails
    \/ Cleanup \/ Return
    \/ Reader

NextDirect ==
    \/ DirectCall
    \/ Mkdir \/ MkdirFails
    \/ Execute \/ ExecuteFails
    \/ OpenStaging \/ WriteHeader
    \/ Fetch \/ FetchFails \/ WriteRows \/ StagingWriteFails \/ EndStream
    \/ CopyOpen \/ CopyChunk \/ CopyEnd \/ CopyFails
    \/ Rename \/ RenameFails
    \/ Unlink \/ UnlinkFails
    \/ Return
    \/ Reader

Spec       == Init /\ [][Next]_vars
SpecDirect == InitDirect /\ [][NextDirect]_vars

\* The script when every blocking call returns: the one thread keeps
\* taking its next step.
Program ==
    \/ StartJob \/ Connect \/ Mkdir \/ Execute
    \/ OpenStaging \/ WriteHeader \/ Fetch \/ WriteRows \/ EndStream
    \/ CopyOpen \/ CopyChunk \/ CopyEnd \/ Rename \/ Unlink
    \/ Cleanup \/ Return

NextLive == Program \/ Reader

SpecLive == Init /\ [][NextLive]_vars /\ WF_vars(Program)

\* ================================================================= claims
FinalPath == final_unc_path(job)

\* The complete export of a result set: the header record, then its rows.
Complete(rs) == File(<<"Date,Site,Amount\n">> \o writerows(rs))

\* save_csv_via_staging_streaming has returned its row count.
Succeeded == pc \in {"cleanup", "return", "exit"}

\* --- C1: a reader polling the final path during a run sees the complete
\* previous export or the complete new one, never a partial file; the final
\* path changes only by the one os.replace of the fully copied temporary file.
ReaderSeesComplete ==
    \/ observed = finalBefore
    \/ attempts["rename"] > 0 /\ observed = Complete(src)

FinalOnlyByReplace ==
    unc'[FinalPath] # unc[FinalPath] =>
        /\ pc = "rename" /\ pc' = "unlink"
        /\ attempts["rename"] = 0
        /\ unc[FinalPath] = finalBefore
        /\ unc'[FinalPath] = Complete(src)

C1_AtomicPublish == [](ReaderSeesComplete) /\ [][FinalOnlyByReplace]_vars

C1_Witness ==
    /\ pc = "unlink"
    /\ finalBefore.exists
    /\ observed = Complete(src)
    /\ observed # finalBefore

\* --- C2: after a successful run the final file holds exactly one header
\* row followed by exactly N data rows, for every N >= 0 and batch size >= 1.
C2_HeaderPlusNRows ==
    Succeeded =>
        /\ unc[final_unc].exists
        /\ Len(unc[final_unc].lines) = Len(src) + 1
        /\ unc[final_unc].lines[1] = "Date,Site,Amount\n"
        /\ \A i \in 2..Len(unc[final_unc].lines) :
              unc[final_unc].lines[i] \in { writerow(r) : r \in RowVals }

C2_Witness ==
    /\ pc = "exit"
    /\ Len(src) >= 2
    /\ arraysize < Len(src)
    /\ Len(unc[final_unc].lines) = Len(src) + 1

\* --- C3: a fault at execute, at a fetch or at a staging write ends the run
\* with the error reaching the caller, with neither copy nor rename performed
\* and the final path as it was before the run.
C3_FaultBeforePublish ==
    failedAt \in {"execute", "fetch", "write"} =>
        /\ pc = "failed"
        /\ error # "none"
        /\ attempts["copy"] = 0
        /\ attempts["rename"] = 0
        /\ unc[FinalPath] = finalBefore

C3_Witness ==
    /\ failedAt = "fetch"
    /\ pc = "failed"
    /\ row_count >= 1
    /\ finalBefore.exists

\* --- C4: when the copy fails, at its start or part way, the rename is
\* never attempted in that run and the final path is left unchanged.
C4_CopyFailureNoRename ==
    failedAt = "copy" =>
        /\ pc = "failed"
        /\ attempts["rename"] = 0
        /\ unc[FinalPath] = finalBefore

C4_Witness ==
    /\ failedAt = "copy"
    /\ pc = "failed"
    /\ copied >= 1
    /\ copied < Len(local[local_tmp].lines)
    /\ finalBefore.exists

\* --- C5: the connection run_sales_export opened is closed on every exit
\* path of the run, failing ones included.
C5_ConnectionClosedOnEveryExit ==
    pc \in {"failed", "return", "exit"} => cxn[job] # "open"

\* --- C6: whenever a run ends, in success or by a failure during streaming,
\* copy or rename, the deletion of its staging file has been attempted.
C6_StagingDeleteAttempted ==
    \/ Succeeded
    \/ /\ pc = "failed"
       /\ failedAt \in {"fetch", "write", "copy", "rename"}
       /\ local[local_tmp].exists
    => attempts["unlink"] >= 1

\* --- C7: after every successful run the run's staging file is gone.
C7_StagingGoneAfterSuccess ==
    Succeeded => ~ local[local_tmp].exists

\* --- C7 as amended: after every successful run whose unlink did not raise,
\* the run's staging file is gone.
C7_StagingGoneUnlessUnlinkFailed ==
    Succeeded /\ ~ swallowed => ~ local[local_tmp].exists

C7_Witness ==
    /\ pc = "return"
    /\ ~ swallowed
    /\ attempts["unlink"] = 1
    /\ Len(src) >= 1
    /\ ~ local[local_tmp].exists

\* --- C8: the run's outcome is the same for every spans argument, the
\* default None included: no run is ended by the timing collector.
C8_TimingNeverEndsRun ==
    ~ (pc = "failed" /\ failedAt = "timed")

\* --- C9: two successful runs over the same result set publish the same
\* content in the same order and return the same count, whatever their
\* batch sizes.
C9_BatchSizeInvariance ==
    pc = "unlink" /\ prev.valid /\ prev.src = src =>
        /\ unc[final_unc].lines = prev.content
        /\ rows_written = prev.count

C9_Witness ==
    /\ pc = "unlink"
    /\ prev.valid /\ prev.src = src
    /\ prev.arraysize # arraysize
    /\ Len(src) >= 2
    /\ unc[final_unc].lines = prev.content

\* --- C10: the same job run twice in a row leaves at the final path the
\* content the first run left, and that content is the second run's own
\* output alone, whatever the destination directory held before.
C10_Idempotent ==
    /\ pc = "unlink" /\ prev.valid
    /\ prev.src = src /\ prev.arraysize = arraysize /\ prev.dest = final_unc
    => /\ unc[final_unc] = File(prev.content)
       /\ unc[final_unc] = local[local_tmp]

C10_Witness ==
    /\ pc = "unlink" /\ prev.valid /\ job = 2
    /\ prev.src = src /\ prev.arraysize = arraysize /\ prev.dest = final_unc
    /\ Len(src) >= 1
    /\ unc[final_unc] = local[local_tmp]

\* --- C11: no step is retried and every failure surfaces: connect, execute,
\* copy and rename are each attempted at most once in a run, and a failure
\* of connect, execute, a fetch, a staging write, the copy or the rename ends
\* the run with an error at the caller, no pipeline step running after it.
OnceAndSurfaced ==
    /\ \A s \in {"connect", "execute", "copy", "rename"} : attempts[s] <= 1
    /\ failedAt \in {"connect", "execute", "fetch", "write", "copy", "rename"}
          => pc = "failed" /\ error # "none"

NothingAfterFailure ==
    pc = "failed" =>
        UNCHANGED << pc, job, cxn, cursor, local, unc, attempts, prev >>

C11_NoRetryFailureSurfaces ==
    [](OnceAndSurfaced) /\ [][NothingAfterFailure]_vars

C11_Witness ==
    /\ pc = "failed" /\ failedAt = "rename" /\ error = "PublishError"
    /\ job = 2
    /\ attempts["connect"] = 1 /\ attempts["execute"] = 1
    /\ attempts["copy"] = 1 /\ attempts["rename"] = 1

\* --- C12: when the deletion of the staging file fails after the rename
\* succeeded, the failure is not propagated: the run returns the row count
\* as a success and the final path holds the new complete export.
C12_UnlinkFailureNotPropagated ==
    swallowed =>
        /\ pc # "failed" /\ error = "none"
        /\ prev.valid /\ prev.src = src /\ prev.count = Len(src)
        /\ unc[final_unc] = Complete(src)

C12_Witness ==
    /\ swallowed
    /\ pc = "return"
    /\ local[local_tmp].exists
    /\ Len(src) >= 1
    /\ unc[final_unc] = Complete(src)

\* --- C13: when a timed(label, bucket) block over a map is left, normally
\* or by an error of its body, exactly one elapsed duration is added to
\* bucket[label], on top of what was accumulated there, every other label is
\* left as it was, and an error of the body still reaches the caller.
TimedBlockLeft == label # "" /\ label' # label

TimedAccumulates ==
    TimedBlockLeft /\ ~ spans.none =>
        /\ ~ spans'.none
        /\ DOMAIN spans'.m = (DOMAIN spans.m) \cup {label}
        /\ now' > t0
        /\ spans'.m[label] = MapGet(spans.m, label, 0) + (now' - t0)
        /\ \A l \in (DOMAIN spans.m) \ {label} : spans'.m[l] = spans.m[l]
        /\ failedAt' # failedAt => pc' = "failed" /\ error' # "none"

C13_TimedAccumulatesOnEveryExit == [][TimedAccumulates]_vars

C13_Witness ==
    /\ pc = "failed" /\ failedAt = "fetch" /\ error = "StreamError"
    /\ ~ spans.none
    /\ DOMAIN spans.m = {"READ_STREAM_TO_LOCAL_CSV", "OTHER"}
    /\ spans.m["READ_STREAM_TO_LOCAL_CSV"] > 5
    /\ spans.m["OTHER"] = 7

\* --- C14: the jobs of the script are independent: distinct destinations,
\* so no job's publish replaces the export another job published, and each
\* job's export is present at its own destination.
C14_JobsIndependent ==
    mode = "script" /\ pc = "unlink" /\ prev.valid =>
        /\ prev.dest # final_unc
        /\ unc[prev.dest] = File(prev.content)

\* --- C15: the steps of a run happen in the order connect, execute,
\* stream, copy, rename, cleanup, each complete before the next begins: the
\* staging file is closed with the header and all N rows in it before the
\* copy starts, and the rename starts only after the copy has completed.
C15_StepOrder ==
    pc \notin {"module", "caller"} =>
        /\ attempts["execute"] > 0 =>
              /\ attempts["connect"] = 1
              /\ cxn[job] = IF attempts["close"] > 0 THEN "closed" ELSE "open"
        /\ attempts["fetch"] > 0 => attempts["execute"] = 1
        /\ pc \in {"copy_open", "copy"} \/ attempts["copy"] > 0 =>
              /\ ~ f_open
              /\ cursor = <<>> /\ rows_written = Len(src)
              /\ attempts["unlink"] = 0 => local[local_tmp] = Complete(src)
        /\ pc = "rename" \/ attempts["rename"] > 0 =>
              /\ attempts["copy"] = 1
              /\ copied = Len(src) + 1
              /\ pc = "rename" => unc[unc_tmp] = Complete(src)
        /\ attempts["unlink"] > 0 =>
              attempts["rename"] = 1 /\ unc[final_unc] = Complete(src)
        /\ attempts["close"] > 0 => attempts["unlink"] = 1

C15_Witness ==
    /\ pc = "return" /\ mode = "script"
    /\ attempts["close"] = 1
    /\ Len(src) = 2
    /\ unc[final_unc] = Complete(src)

\* --- C16: the running count equals, at every point of the streaming loop,
\* the number of rows already handed to the writer; the count returned is the
\* number of data rows in the staging file (header excluded) and the sum of
\* the lengths of the batches fetched.
C16_RowCount ==
    /\ pc \in {"fetch", "write", "endstream"} =>
          /\ row_count = Len(local[local_tmp].lines) - 1
          /\ row_count = Len(src) - Len(cursor)
                           - (IF pc = "write" THEN Len(rows) ELSE 0)
    /\ pc \in {"copy_open", "copy", "rename"} =>
          /\ rows_written = Len(local[local_tmp].lines) - 1
          /\ rows_written = Len(src) - Len(cursor)
    /\ Succeeded => prev.count = rows_written /\ prev.count = Len(prev.src)

C16_Witness ==
    /\ pc = "copy_open"
    /\ arraysize = 1 /\ attempts["fetch"] = 3
    /\ rows_written = 2
    /\ Len(local[local_tmp].lines) = 3

\* --- C17: in the published file the header record comes first and the data
\* records follow in the order the cursor yielded the rows, across batches,
\* none dropped, duplicated or reordered; the two rows of the example give
\* Date,Site,Amount / 2024-01-01,A,10 / 2024-01-02,B,20.
RecordOf(r) ==
    IF r = <<"2024-01-01", "A", "10">> THEN "2024-01-01,A,10\n"
    ELSE "2024-01-02,B,20\n"

C17_HeaderThenRowsInOrder ==
    Succeeded =>
        /\ Len(unc[final_unc].lines) = Len(src) + 1
        /\ unc[final_unc].lines[1] = "Date,Site,Amount\n"
        /\ \A i \in 1..Len(src) : unc[final_unc].lines[i + 1] = RecordOf(src[i])
        /\ src = << <<"2024-01-01", "A", "10">>, <<"2024-01-02", "B", "20">> >>
              => unc[final_unc].lines =
                   << "Date,Site,Amount\n", "2024-01-01,A,10\n", "2024-01-02,B,20\n" >>

C17_Witness ==
    /\ pc = "exit"
    /\ arraysize = 1
    /\ src = << <<"2024-01-01", "A", "10">>, <<"2024-01-02", "B", "20">> >>
    /\ unc[final_unc].lines =
         << "Date,Site,Amount\n", "2024-01-01,A,10\n", "2024-01-02,B,20\n" >>

\* --- C18: when every fetch returns, the streaming loop ends: each batch has
\* at most arraysize rows, every non-empty batch goes to the writer, the loop
\* stops at the first empty batch with nothing fetched after it, and the run
\* goes on to copy, rename and cleanup.
Batches == (Len(src) + arraysize - 1) \div arraysize

LoopShape ==
    /\ Len(rows) <= arraysize
    /\ pc \in {"endstream", "copy_open", "copy", "rename", "unlink", "cleanup"} =>
          /\ rows = <<>> /\ cursor = <<>>
          /\ attempts["fetch"] = Batches + 1
          /\ attempts["write"] = Batches
          /\ row_count = Len(src)

C18_StreamingLoopTerminates ==
    /\ [](LoopShape)
    /\ (pc = "fetch") ~> (pc = "copy_open")
    /\ (pc = "copy_open") ~> (pc = "rename")
    /\ (pc = "rename") ~> (pc = "cleanup")

C18_Witness ==
    /\ pc = "cleanup"
    /\ Len(src) = 2 /\ arraysize = 1
    /\ attempts["fetch"] = 3 /\ attempts["write"] = 2
    /\ attempts["copy"] = 1 /\ attempts["rename"] = 1

\* --- C19: in the script's run of jobs 1, 2, 3 a failure of job k stops the
\* process: no later job connects, streams or publishes, and the destination
\* holds what the last successful job before k published, or what it held
\* before the script ran if none succeeded.
FailureLeavesLastExport ==
    pc = "failed" =>
        /\ \A j \in (job + 1)..NumJobs : cxn[j] = "none"
        /\ local_tmp <= job
        /\ unc[FinalPath] = IF prev.valid THEN File(prev.content) ELSE finalBefore
        /\ ~ prev.valid => job = 1

FailureStopsProcess ==
    pc = "failed" =>
        /\ pc' = "failed" /\ job' = job
        /\ cxn' = cxn /\ local' = local /\ unc' = unc /\ attempts' = attempts

C19_FailureStopsLaterJobs ==
    [](FailureLeavesLastExport) /\ [][FailureStopsProcess]_vars

C19_Witness ==
    /\ pc = "failed" /\ job = 2 /\ failedAt = "copy"
    /\ prev.valid
    /\ Len(prev.src) = 2 /\ Len(src) = 1
    /\ unc[FinalPath] = File(prev.content)
    /\ cxn[3] = "none"

\* --- C20: after every successful run no file is left at the temporary
\* path of the destination directory: the run writes that path only while it
\* copies, and the rename takes the file away.
TmpPath == UncTmp(FinalPath)

TmpGoneAfterSuccess ==
    Succeeded => /\ unc_tmp = TmpPath
                 /\ ~ unc[TmpPath].exists

TmpOnlyCopyThenRename ==
    unc'[TmpPath] # unc[TmpPath] =>
        \/ pc \in {"copy_open", "copy"} /\ unc'[TmpPath].exists
        \/ pc = "rename" /\ pc' = "unlink" /\ ~ unc'[TmpPath].exists
                         /\ unc'[FinalPath] = unc[TmpPath]

C20_NoTmpAfterSuccess ==
    [](TmpGoneAfterSuccess) /\ [][TmpOnlyCopyThenRename]_vars

C20_Witness ==
    /\ pc = "cleanup" /\ job = 1
    /\ Len(src) >= 1
    /\ ~ finalBefore.exists
    /\ unc[FinalPath] = Complete(src)
    /\ ~ unc[TmpPath].exists

====
